---- MODULE Spec2Model ----
(***************************************************************************)
(* Model of the SOCKS5 server of server.go: construction of the server     *)
(* (NewServer), the accept loop (Serve), the task dispatcher (submit) and  *)
(* the per-connection protocol driver (ServeConn, authenticate).           *)
(*                                                                         *)
(* Each accepted connection is one record of `conns`; ServeConn is cut at  *)
(* its blocking calls (ParseMethodRequest, authenticate, NewRequest,       *)
(* handleRequest), one action per call, so that connections interleave as  *)
(* goroutines do.  The record holds the local variables of ServeConn (mr,   *)
(* authContext, request, and err after authenticate and after NewRequest)  *)
(* and what the call did so far: wire (the writes of ServeConn and         *)
(* authenticate on the connection), invoked (the authenticators run),      *)
(* parsed (requests built), handled (calls of the command executor), hist  *)
(* (the calls in the order made), closed, ret and logged.                  *)
(***************************************************************************)
EXTENDS Integers, Sequences, FiniteSets, TLC

(***************************************************************************)
(* Bounds of the model.                                                    *)
(***************************************************************************)
MaxConns == 2
MaxMethods == 2

(***************************************************************************)
(* Protocol constants (package statute).                                   *)
(***************************************************************************)
VersionSocks5 == 5
\* the version of a client that does not speak SOCKS5
OtherVersion == VersionSocks5 - 1
MethodNoAuth == 0
MethodUserPassAuth == 2
MethodNoAcceptable == 255
RepAddrTypeNotSupported == 8

Conns == 1..MaxConns
MethodCodes == {MethodNoAuth, MethodUserPassAuth}

Nil == "nil"
\* the credential store given to WithCredential, and the one inside a custom authenticator
CredStore == "cs"
CustomStore == "custom"

RECURSIVE SeqsUpTo(_, _)
SeqsUpTo(S, n) ==
  IF n = 0 THEN {<<>>}
  ELSE LET shorter == SeqsUpTo(S, n - 1)
       IN shorter \cup {Append(s, x) : s \in shorter, x \in S}

\* the method lists a client can offer in its handshake
OfferedMethods == SeqsUpTo(MethodCodes, MaxMethods)

\* the handshakes ParseMethodRequest can return: every method list under version 5,
\* and a client of another version (its methods are never looked at)
Handshakes ==
  {[Ver |-> VersionSocks5, Methods |-> m] : m \in OfferedMethods}
    \cup {[Ver |-> OtherVersion, Methods |-> <<MethodNoAuth>>]}

(***************************************************************************)
(* Errors.  An error is a record: msg is the text put in front by          *)
(* fmt.Errorf, cause the error underneath, chain whether the cause can     *)
(* still be unwrapped (%w) or was only formatted into the text (%v).       *)
(***************************************************************************)
NoError == [msg |-> "", cause |-> Nil, chain |-> FALSE]
Plain(e) == [msg |-> "", cause |-> e, chain |-> FALSE]
Wrapw(m, e) == [msg |-> m, cause |-> e.cause, chain |-> TRUE]
Wrapv(m, e) == [msg |-> m, cause |-> e.cause, chain |-> FALSE]

ErrNotSupportVersion == Plain("ErrNotSupportVersion")
ErrNoSupportedAuth == Plain("ErrNoSupportedAuth")
ErrUnrecognizedAddrType == Plain("ErrUnrecognizedAddrType")
ErrUserAuthFailed == Plain("ErrUserAuthFailed")
ErrUnexpectedEOF == Plain("ErrUnexpectedEOF")
ErrUnrecognizedCommand == Plain("unrecognized command")
ErrHandle == Plain("handle error")
ErrAccept == Plain("accept error")
ErrWrite == Plain("write error")

(***************************************************************************)
(* Authenticators.                                                         *)
(***************************************************************************)
NoAuthAuthenticator == [kind |-> "NoAuth", credentials |-> Nil]
UserPassAuthenticator(cs) == [kind |-> "UserPass", credentials |-> cs]

GetCode(a) == IF a.kind = "NoAuth" THEN MethodNoAuth ELSE MethodUserPassAuth

\* what Authenticate of an authenticator can return: an AuthContext or an error
AuthResult(ctx, e) == [ctx |-> ctx, err |-> e]
AuthenticateResults(a) ==
  IF a.kind = "NoAuth"
  THEN {AuthResult(<<[Method |-> MethodNoAuth, Payload |-> Nil]>>, NoError)}
  ELSE {AuthResult(<<[Method |-> MethodUserPassAuth, Payload |-> "username"]>>, NoError),
        AuthResult(<<>>, ErrUserAuthFailed)}

(***************************************************************************)
(* Options and NewServer.                                                  *)
(***************************************************************************)
WithAuthMethods(l) == [name |-> "WithAuthMethods", list |-> l, cs |-> Nil]
WithCredential(cs) == [name |-> "WithCredential", list |-> <<>>, cs |-> cs]
WithGPool == [name |-> "WithGPool", list |-> <<>>, cs |-> Nil]

\* opt(server).  Custom authenticators replace the default list when some are
\* given; a list without any counts as not provided.
ApplyOption(opt, s) ==
  IF opt.name = "WithAuthMethods"
  THEN IF Len(opt.list) # 0 THEN [s EXCEPT !.authCustomMethods = opt.list] ELSE s
  ELSE IF opt.name = "WithCredential" THEN [s EXCEPT !.credentials = opt.cs]
  ELSE [s EXCEPT !.gPool = TRUE]

RECURSIVE ApplyOptions(_, _)
ApplyOptions(opts, s) ==
  IF opts = <<>> THEN s ELSE ApplyOptions(Tail(opts), ApplyOption(Head(opts), s))

EmptyMap == [x \in {} |-> NoAuthAuthenticator]

RECURSIVE RegisterAll(_, _)
RegisterAll(list, m) ==
  IF list = <<>> THEN m
  ELSE LET v == Head(list)
           m1 == [x \in DOMAIN m \cup {GetCode(v)} |-> IF x = GetCode(v) THEN v ELSE m[x]]
       IN RegisterAll(Tail(list), m1)

\* variant of DefaultServer: no default authenticator in the list
DefaultServerNoAuthenticator ==
  [authMethods |-> EmptyMap,
   authCustomMethods |-> <<>>,
   credentials |-> Nil,
   bufferPool |-> "newPool(2 * 1024)",
   resolver |-> "DNSResolver",
   rules |-> "NewPermitAll",
   rewriter |-> Nil,
   bindIP |-> Nil,
   logger |-> "ioutil.Discard",
   dial |-> "net.Dial",
   gPool |-> FALSE]

DefaultServer ==
  [authMethods |-> EmptyMap,
   authCustomMethods |-> <<NoAuthAuthenticator>>,
   credentials |-> Nil,
   bufferPool |-> "newPool(2 * 1024)",
   resolver |-> "DNSResolver",
   rules |-> "NewPermitAll",
   rewriter |-> Nil,
   bindIP |-> Nil,
   logger |-> "ioutil.Discard",
   dial |-> "net.Dial",
   gPool |-> FALSE]

EnsureAuthMethod(s) ==
  IF Len(s.authCustomMethods) = 0 /\ s.credentials # Nil
  THEN [s EXCEPT !.authCustomMethods = <<UserPassAuthenticator(s.credentials)>>]
  ELSE s

NewServer(opts) ==
  LET s1 == ApplyOptions(opts, DefaultServer)
      s2 == EnsureAuthMethod(s1)
  IN [s2 EXCEPT !.authMethods = RegisterAll(s2.authCustomMethods, s2.authMethods)]

\* the custom authenticator lists a caller passes to WithAuthMethods
CustomLists ==
  {<<>>, <<NoAuthAuthenticator, UserPassAuthenticator(CustomStore)>>}

\* the authentication options of a call of NewServer: custom authenticators not
\* given, given empty or given non-empty, with and without a credential store
AuthOptionLists ==
  {a \o b :
     a \in {<<>>} \cup {<<WithAuthMethods(l)>> : l \in CustomLists},
     b \in {<<>>, <<WithCredential(CredStore)>>}}

\* the option lists NewServer is called with: the authentication options, and a
\* goroutine pool given to a server of the default authentication
OptionLists == AuthOptionLists \cup {<<WithGPool>>}

VARIABLES opts, server, serve, conns
vars == <<opts, server, serve, conns>>

(***************************************************************************)
(* A connection: not yet accepted (pc = "idle"), accepted and handed to    *)
(* submit ("submitted": its work waits in the pool and/or as a goroutine), *)
(* inside ServeConn (pc names the call it is about to make), or "done".    *)
(***************************************************************************)
NoMR == [Ver |-> 0, Methods |-> <<>>]
LocalAddr(c) == <<"local", c>>
RemoteAddr(c) == <<"remote", c>>

NewConn(c) ==
  [id |-> c, pc |-> "idle", pooled |-> 0, spawned |-> 0, runs |-> 0,
   mr |-> NoMR, authContext |-> <<>>, authErr |-> NoError,
   request |-> <<>>, reqErr |-> NoError, handleErr |-> NoError,
   wire |-> <<>>, invoked |-> <<>>, parsed |-> 0, handled |-> <<>>,
   closed |-> FALSE, ret |-> NoError, logged |-> <<>>, hist |-> <<>>]

Ev(k, e) == [k EXCEPT !.hist = Append(@, e)]

Init ==
  /\ opts \in OptionLists
  /\ server = NewServer(opts)
  /\ serve = [state |-> "accepting", err |-> NoError, acceptErr |-> NoError]
  /\ conns = [c \in Conns |-> NewConn(c)]

(***************************************************************************)
(* submit and the goroutine pool.                                          *)
(***************************************************************************)
\* gPool.Submit(f): nil means the pool took f, non-nil that it did not (the pool
\* is exhausted, closed, ...); when it refuses is up to the pool
GPoolSubmit(k, submitErr) == IF submitErr THEN k ELSE [k EXCEPT !.pooled = @ + 1]

\* go f()
Go(k) == [k EXCEPT !.spawned = @ + 1]

\* variant of submit: the error of Submit is dropped, no goroutine is started
submitNoFallback(k, submitErr) ==
  IF ~server.gPool THEN Go(k) ELSE GPoolSubmit(k, submitErr)

\* variant of submit: the goroutine is started whatever Submit returned
submitAlwaysGo(k, submitErr) ==
  IF ~server.gPool THEN Go(k) ELSE Go(GPoolSubmit(k, submitErr))

submit(k, submitErr) ==
  IF ~server.gPool THEN Go(k)
  ELSE LET k1 == GPoolSubmit(k, submitErr)
       IN IF submitErr THEN Go(k1) ELSE k1

(***************************************************************************)
(* Serve: one iteration of the accept loop.                                *)
(***************************************************************************)
NextToAccept(c) ==
  /\ conns[c].pc = "idle"
  /\ \A d \in Conns : d < c => conns[d].pc # "idle"

\* variant of ServeRunning: Serve serves the connections itself and gives up at
\* the first one that fails
ServeRunningWhileNoFailure ==
  serve.state = "accepting" /\ \A c \in Conns : conns[c].ret = NoError

\* the for loop of Serve is still running
ServeRunning == serve.state = "accepting"

\* variant of ServeReturn: the error of Accept is taken as temporary, the loop goes on
ServeReturnRetry(s, err) == [s EXCEPT !.acceptErr = err]

\* Accept returned err (acceptErr) and Serve returns it
ServeReturn(s, err) == [state |-> "returned", err |-> err, acceptErr |-> err]

\* variant of Serve_Accept: a pool that refused the work is dropped from the server
Serve_AcceptDropsPool ==
  /\ ServeRunning
  /\ \E c \in Conns, submitErr \in BOOLEAN :
       /\ NextToAccept(c)
       /\ ~submitErr => server.gPool
       /\ conns' = [conns EXCEPT ![c] = submit(Ev([@ EXCEPT !.pc = "submitted"], "Accept"), submitErr)]
       /\ server' = [server EXCEPT !.gPool = @ /\ ~submitErr]
  /\ UNCHANGED <<opts, serve>>

Serve_Accept ==
  /\ ServeRunning
  /\ \E c \in Conns, submitErr \in BOOLEAN :
       /\ NextToAccept(c)
       /\ ~submitErr => server.gPool
       /\ conns' = [conns EXCEPT ![c] = submit(Ev([@ EXCEPT !.pc = "submitted"], "Accept"), submitErr)]
  /\ UNCHANGED <<opts, server, serve>>

Serve_AcceptError ==
  /\ ServeRunning
  /\ serve' = ServeReturn(serve, ErrAccept)
  /\ UNCHANGED <<opts, server, conns>>

(***************************************************************************)
(* The unit of work of a connection: func() { err := s.ServeConn(conn);    *)
(* if err != nil { log } }.                                                *)
(***************************************************************************)
\* variant of ServeConnReturn: Close is called at the end of the function
\* instead of deferred, so only the last return runs it
ServeConnReturnCloseAtEnd(k, e) ==
  IF e = NoError
  THEN [Ev(Ev(k, "Close"), "return") EXCEPT !.closed = TRUE, !.ret = e, !.pc = "done"]
  ELSE [Ev(k, "return") EXCEPT !.ret = e, !.pc = "done"]

\* return e, with the deferred conn.Close() run first
ServeConnReturn(k, e) ==
  [Ev(Ev(k, "Close"), "return") EXCEPT
     !.closed = TRUE, !.ret = e, !.pc = "done"]

\* the closure around ServeConn: log the error it returned
Closure(k) ==
  IF k.pc = "done" /\ k.ret # NoError THEN [k EXCEPT !.logged = Append(@, k.ret)] ELSE k

Task_Start(c) ==
  /\ conns[c].pc = "submitted"
  /\ \/ /\ conns[c].pooled > 0
        /\ conns' = [conns EXCEPT ![c] =
                       Ev([@ EXCEPT !.pooled = @ - 1, !.runs = @ + 1,
                                    !.pc = "ParseMethodRequest"], "ServeConn")]
     \/ /\ conns[c].spawned > 0
        /\ conns' = [conns EXCEPT ![c] =
                       Ev([@ EXCEPT !.spawned = @ - 1, !.runs = @ + 1,
                                    !.pc = "ParseMethodRequest"], "ServeConn")]
  /\ UNCHANGED <<opts, server, serve>>

(***************************************************************************)
(* ServeConn, lines 121-127: read the handshake, check the version.        *)
(***************************************************************************)
\* variant of CheckVersion: the version of the handshake is not looked at
CheckVersionAny(k) == [k EXCEPT !.pc = "authenticate"]

\* variant of CheckVersion: after the version check ServeConn goes on with the
\* request, without authenticate
CheckVersionSkipAuthenticate(k) ==
  IF k.mr.Ver # VersionSocks5
  THEN ServeConnReturn(k, ErrNotSupportVersion)
  ELSE [k EXCEPT !.pc = "NewRequest"]

CheckVersion(k) ==
  IF k.mr.Ver # VersionSocks5
  THEN ServeConnReturn(k, ErrNotSupportVersion)
  ELSE [k EXCEPT !.pc = "authenticate"]

ServeConn_ParseMethodRequest(c) ==
  /\ conns[c].pc = "ParseMethodRequest"
  /\ \/ conns' = [conns EXCEPT ![c] =
                    Closure(ServeConnReturn(Ev(@, "ParseMethodRequest"), ErrUnexpectedEOF))]
     \/ \E h \in Handshakes :
          conns' = [conns EXCEPT ![c] =
                      Closure(CheckVersion(Ev([@ EXCEPT !.mr = h], "ParseMethodRequest")))]
  /\ UNCHANGED <<opts, server, serve>>

(***************************************************************************)
(* authenticate.                                                           *)
(***************************************************************************)
\* a Write of the server on the connection, and whether it went through
Write(data, ok) == [data |-> data, ok |-> ok]

\* variant of SelectMethod: the loop does not stop at the first match, the last one wins
SelectMethodLast(methods, i, authMethods) ==
  LET found == {j \in i..Len(methods) : methods[j] \in DOMAIN authMethods}
  IN IF found = {} THEN 0 ELSE CHOOSE j \in found : \A l \in found : l <= j

\* the loop over methods: the index of the first method found in the map, 0 if none
RECURSIVE SelectMethod(_, _, _)
SelectMethod(methods, i, authMethods) ==
  IF i > Len(methods) THEN 0
  ELSE IF methods[i] \in DOMAIN authMethods THEN i
  ELSE SelectMethod(methods, i + 1, authMethods)

\* variant of authenticate: nothing is written when no method is usable
authenticateSilent(k, methods, writeOk) ==
  LET i == SelectMethod(methods, 1, server.authMethods)
  IN IF i # 0
     THEN LET cator == server.authMethods[methods[i]]
          IN {[k |-> Ev([k EXCEPT !.invoked = Append(@, cator)], "Authenticate"),
               ctx |-> r.ctx, err |-> r.err] : r \in AuthenticateResults(cator)}
     ELSE {[k |-> k, ctx |-> <<>>, err |-> ErrNoSupportedAuth]}

\* variant of authenticate: when the authenticator of the first usable method
\* fails, the next usable method that was offered is tried
authenticateFallback(k, methods, writeOk) ==
  LET i == SelectMethod(methods, 1, server.authMethods)
      j == IF i = 0 THEN 0 ELSE SelectMethod(methods, i + 1, server.authMethods)
  IN IF i # 0
     THEN LET cator == server.authMethods[methods[i]]
              k1 == Ev([k EXCEPT !.invoked = Append(@, cator)], "Authenticate")
          IN UNION {IF r.err = NoError \/ j = 0
                    THEN {[k |-> k1, ctx |-> r.ctx, err |-> r.err]}
                    ELSE LET next == server.authMethods[methods[j]]
                         IN {[k |-> Ev([k1 EXCEPT !.invoked = Append(@, next)], "Authenticate"),
                              ctx |-> r2.ctx, err |-> r2.err] : r2 \in AuthenticateResults(next)}
                    : r \in AuthenticateResults(cator)}
     ELSE {[k |-> Ev([k EXCEPT !.wire = Append(@, Write(<<VersionSocks5, MethodNoAcceptable>>,
                                                          writeOk))], "Write"),
            ctx |-> <<>>, err |-> ErrNoSupportedAuth]}

\* variant of authenticate: the error of the Write of the refusal is returned
authenticateChecksWrite(k, methods, writeOk) ==
  LET i == SelectMethod(methods, 1, server.authMethods)
  IN IF i # 0
     THEN LET cator == server.authMethods[methods[i]]
          IN {[k |-> Ev([k EXCEPT !.invoked = Append(@, cator)], "Authenticate"),
               ctx |-> r.ctx, err |-> r.err] : r \in AuthenticateResults(cator)}
     ELSE {[k |-> Ev([k EXCEPT !.wire = Append(@, Write(<<VersionSocks5, MethodNoAcceptable>>,
                                                          writeOk))], "Write"),
            ctx |-> <<>>, err |-> IF writeOk THEN ErrNoSupportedAuth ELSE ErrWrite]}

\* the possible results of authenticate: the connection after it, and (ctx, err)
authenticate(k, methods, writeOk) ==
  LET i == SelectMethod(methods, 1, server.authMethods)
  IN IF i # 0
     THEN LET cator == server.authMethods[methods[i]]
          IN {[k |-> Ev([k EXCEPT !.invoked = Append(@, cator)], "Authenticate"),
               ctx |-> r.ctx, err |-> r.err] : r \in AuthenticateResults(cator)}
     ELSE {[k |-> Ev([k EXCEPT !.wire = Append(@, Write(<<VersionSocks5, MethodNoAcceptable>>,
                                                          writeOk))], "Write"),
            ctx |-> <<>>, err |-> ErrNoSupportedAuth]}

\* variant of AfterAuthenticate: the error of authenticate is not checked
AfterAuthenticateUnchecked(r) ==
  [r.k EXCEPT !.authContext = r.ctx, !.authErr = r.err,
              !.mr = [Ver |-> r.k.mr.Ver, Methods |-> <<>>],
              !.pc = "NewRequest"]

\* ServeConn, lines 129-133.  The methods were handed to authenticate and are not
\* read again: of mr only Ver is kept (line 139 reads it).
AfterAuthenticate(r) ==
  LET k == [r.k EXCEPT !.authContext = r.ctx, !.authErr = r.err,
                       !.mr = [Ver |-> r.k.mr.Ver, Methods |-> <<>>]]
  IN IF r.err # NoError
     THEN ServeConnReturn(k, Wrapw("failed to authenticate", r.err))
     ELSE [k EXCEPT !.pc = "NewRequest"]

ServeConn_authenticate(c) ==
  /\ conns[c].pc = "authenticate"
  /\ \E writeOk \in BOOLEAN :
       \E r \in authenticate(conns[c], conns[c].mr.Methods, writeOk) :
          conns' = [conns EXCEPT ![c] = Closure(AfterAuthenticate(r))]
  /\ UNCHANGED <<opts, server, serve>>

(***************************************************************************)
(* ServeConn, lines 135-148: parse the request.                            *)
(***************************************************************************)
NewRequestErrors ==
  {ErrUnrecognizedAddrType, ErrUnexpectedEOF, ErrUnrecognizedCommand, ErrNotSupportVersion}

\* the bytes of a Reply without a bound address
ReplyBytes(ver, rep) == <<ver, rep, 0, 1, 0, 0, 0, 0, 0, 0>>

SendReply(k, ver, rep, writeOk) ==
  Ev([k EXCEPT !.wire = Append(@, Write(ReplyBytes(ver, rep), writeOk))], "SendReply")

\* variant of AfterNewRequest: no reply for an unrecognized address type
AfterNewRequestNoReply(k0, err, writeOk) ==
  LET k == [k0 EXCEPT !.reqErr = err]
  IN IF err # NoError
     THEN ServeConnReturn(k, Wrapw("failed to read destination address", err))
     ELSE [k EXCEPT !.request = <<[AuthContext |-> k.authContext,
                                   LocalAddr |-> LocalAddr(k.id),
                                   RemoteAddr |-> RemoteAddr(k.id)]>>,
                    !.parsed = @ + 1,
                    !.pc = "handleRequest"]

\* variant of AfterNewRequest: the reply is sent for every parse error
AfterNewRequestAlwaysReply(k0, err, writeOk) ==
  LET k == [k0 EXCEPT !.reqErr = err]
  IN IF err # NoError
     THEN LET k1 == SendReply(k, k.mr.Ver, RepAddrTypeNotSupported, writeOk)
          IN IF ~writeOk
             THEN ServeConnReturn(k1, Wrapw("failed to send reply", ErrWrite))
             ELSE ServeConnReturn(k1, Wrapw("failed to read destination address", err))
     ELSE [k EXCEPT !.request = <<[AuthContext |-> k.authContext,
                                   LocalAddr |-> LocalAddr(k.id),
                                   RemoteAddr |-> RemoteAddr(k.id)]>>,
                    !.parsed = @ + 1,
                    !.pc = "handleRequest"]

\* variant of AfterNewRequest: after the reply for an unrecognized address type
\* ServeConn goes on to the executor
AfterNewRequestReplyAndGoOn(k0, err, writeOk) ==
  LET k == [k0 EXCEPT !.reqErr = err]
      req == <<[AuthContext |-> k.authContext,
                LocalAddr |-> LocalAddr(k.id),
                RemoteAddr |-> RemoteAddr(k.id)]>>
  IN IF err # NoError
     THEN IF err = ErrUnrecognizedAddrType
          THEN LET k1 == SendReply(k, k.mr.Ver, RepAddrTypeNotSupported, writeOk)
               IN [k1 EXCEPT !.request = req, !.pc = "handleRequest"]
          ELSE ServeConnReturn(k, Wrapw("failed to read destination address", err))
     ELSE [k EXCEPT !.request = req, !.parsed = @ + 1, !.pc = "handleRequest"]

\* variant of AfterNewRequest: the addresses are taken from a connection shared
\* by all the tasks instead of the task's own
AfterNewRequestSharedConn(k0, err, writeOk) ==
  LET k == [k0 EXCEPT !.reqErr = err]
  IN IF err # NoError
     THEN IF err = ErrUnrecognizedAddrType
          THEN LET k1 == SendReply(k, k.mr.Ver, RepAddrTypeNotSupported, writeOk)
               IN IF ~writeOk
                  THEN ServeConnReturn(k1, Wrapw("failed to send reply", ErrWrite))
                  ELSE ServeConnReturn(k1, Wrapw("failed to read destination address", err))
          ELSE ServeConnReturn(k, Wrapw("failed to read destination address", err))
     ELSE [k EXCEPT !.request = <<[AuthContext |-> k.authContext,
                                   LocalAddr |-> LocalAddr(1),
                                   RemoteAddr |-> RemoteAddr(1)]>>,
                    !.parsed = @ + 1,
                    !.pc = "handleRequest"]

AfterNewRequest(k0, err, writeOk) ==
  LET k == [k0 EXCEPT !.reqErr = err]
  IN IF err # NoError
     THEN IF err = ErrUnrecognizedAddrType
          THEN LET k1 == SendReply(k, k.mr.Ver, RepAddrTypeNotSupported, writeOk)
               IN IF ~writeOk
                  THEN ServeConnReturn(k1, Wrapw("failed to send reply", ErrWrite))
                  ELSE ServeConnReturn(k1, Wrapw("failed to read destination address", err))
          ELSE ServeConnReturn(k, Wrapw("failed to read destination address", err))
     ELSE [k EXCEPT !.request = <<[AuthContext |-> k.authContext,
                                   LocalAddr |-> LocalAddr(k.id),
                                   RemoteAddr |-> RemoteAddr(k.id)]>>,
                    !.parsed = @ + 1,
                    !.pc = "handleRequest"]

ServeConn_NewRequest(c) ==
  /\ conns[c].pc = "NewRequest"
  /\ \E err \in NewRequestErrors \cup {NoError}, writeOk \in BOOLEAN :
       conns' = [conns EXCEPT ![c] = Closure(AfterNewRequest(Ev(@, "NewRequest"), err, writeOk))]
  /\ UNCHANGED <<opts, server, serve>>

(***************************************************************************)
(* ServeConn, lines 149-153: dispatch to the command executor.             *)
(***************************************************************************)
\* s.handleRequest(conn, request): the executor is called with the stream and the request
handleRequest(k) ==
  Ev([k EXCEPT !.handled = Append(@, [conn |-> k.id, request |-> k.request[1]])],
     "handleRequest")

\* variant of AfterHandleRequest: the error of the executor is dropped
AfterHandleRequestDropError(k0, err) ==
  ServeConnReturn([k0 EXCEPT !.handleErr = err], NoError)

AfterHandleRequest(k0, err) ==
  LET k == [k0 EXCEPT !.handleErr = err]
  IN IF err # NoError
     THEN ServeConnReturn(k, Wrapv("failed to handle request", err))
     ELSE ServeConnReturn(k, NoError)

ServeConn_handleRequest(c) ==
  /\ conns[c].pc = "handleRequest"
  /\ \E err \in {NoError, ErrHandle} :
       conns' = [conns EXCEPT ![c] = Closure(AfterHandleRequest(handleRequest(@), err))]
  /\ UNCHANGED <<opts, server, serve>>

Next ==
  \/ Serve_Accept
  \/ Serve_AcceptError
  \/ \E c \in Conns : Task_Start(c)
  \/ \E c \in Conns : ServeConn_ParseMethodRequest(c)
  \/ \E c \in Conns : ServeConn_authenticate(c)
  \/ \E c \in Conns : ServeConn_NewRequest(c)
  \/ \E c \in Conns : ServeConn_handleRequest(c)

Spec == Init /\ [][Next]_vars

\* The server as far as scheduling goes: of the options only the pool matters to
\* Serve and submit, so the server has the default authentication.
InitSched == Init /\ opts \in {<<>>, <<WithGPool>>}

\* goroutines and pool workers that are ready to run are eventually run
FairSpec == InitSched /\ [][Next]_vars /\ \A c \in Conns : WF_vars(Task_Start(c))

(***************************************************************************)
(* Properties.                                                             *)
(***************************************************************************)
Done(c) == conns[c].pc = "done"

\* the position of the first event e in the history h, 0 if there is none
Pos(h, e) ==
  IF \E i \in 1..Len(h) : h[i] = e
  THEN CHOOSE i \in 1..Len(h) : h[i] = e /\ \A j \in 1..(i - 1) : h[j] # e
  ELSE 0

\* the data of the writes of a connection
WireData(c) == [i \in 1..Len(conns[c].wire) |-> conns[c].wire[i].data]

\* some offered method is registered
OffersRegistered(methods) == \E i \in 1..Len(methods) : methods[i] \in DOMAIN server.authMethods

\* the first offered method, in the order sent, that is registered
FirstRegistered(methods) ==
  methods[CHOOSE i \in 1..Len(methods) :
            /\ methods[i] \in DOMAIN server.authMethods
            /\ \A j \in 1..(i - 1) : methods[j] \notin DOMAIN server.authMethods]

\* connection c leaves the call of authenticate in this step
AuthenticateStep(c) == conns[c].pc = "authenticate" /\ conns'[c].pc # "authenticate"

\* C1: when ServeConn has returned, on whatever path, the connection is closed, and
\* it was closed before the return.
C1_ClosedOnEveryExit ==
  \A c \in Conns :
    (Done(c) \/ Pos(conns[c].hist, "return") # 0) =>
      /\ conns[c].closed
      /\ Pos(conns[c].hist, "Close") # 0
      /\ Pos(conns[c].hist, "Close") < Pos(conns[c].hist, "return")

C1_Witness ==
  \E c \in Conns : Done(c) /\ conns[c].closed /\ conns[c].ret.msg = "failed to send reply"

\* C2: when some offered method is registered, authenticate runs the authenticator
\* registered under the first such method in the order offered, and only that one.
C2_FirstOfferedSelected ==
  [][\A c \in Conns :
       (AuthenticateStep(c) /\ OffersRegistered(conns[c].mr.Methods)) =>
         conns'[c].invoked = <<server.authMethods[FirstRegistered(conns[c].mr.Methods)]>>]_vars

\* a server with both methods registered ran username/password for a client
C2_Witness ==
  \E c \in Conns :
    /\ DOMAIN server.authMethods = {MethodNoAuth, MethodUserPassAuth}
    /\ conns[c].invoked = <<UserPassAuthenticator(CustomStore)>>
    /\ conns[c].pc = "NewRequest"

\* C3: when no offered method is registered (the list may be empty), the server
\* writes the two bytes 5, 0xFF and nothing else, runs no authenticator, fails with
\* the no-supported-auth error, and never parses or dispatches a request.
C3_NoAcceptableMethod ==
  /\ [][\A c \in Conns :
          (AuthenticateStep(c) /\ ~OffersRegistered(conns[c].mr.Methods)) =>
            /\ conns'[c].authErr = ErrNoSupportedAuth
            /\ conns'[c].ret = Wrapw("failed to authenticate", ErrNoSupportedAuth)
            /\ conns'[c].pc = "done"]_vars
  /\ [](\A c \in Conns :
          conns[c].authErr = ErrNoSupportedAuth =>
            /\ Done(c)
            /\ WireData(c) = << <<VersionSocks5, MethodNoAcceptable>> >>
            /\ conns[c].invoked = <<>>
            /\ conns[c].parsed = 0
            /\ conns[c].request = <<>>
            /\ conns[c].handled = <<>>)

C3_Witness ==
  \E c \in Conns :
    /\ conns[c].authErr = ErrNoSupportedAuth
    /\ Done(c)
    /\ Len(conns[c].wire) = 1

\* the options hold an option of that name
HasOption(name) == \E i \in 1..Len(opts) : opts[i].name = name

\* custom authenticators were supplied: WithAuthMethods with a non-empty list
CustomSupplied == \E i \in 1..Len(opts) : opts[i].name = "WithAuthMethods" /\ opts[i].list # <<>>

\* C4: after NewServer the authenticator map is not empty, whatever the options;
\* without custom authenticators and without credential store it holds exactly
\* the no-auth authenticator.
C4_AuthMethodsNeverEmpty ==
  /\ DOMAIN server.authMethods # {}
  /\ (~CustomSupplied /\ ~HasOption("WithCredential")) =>
       /\ DOMAIN server.authMethods = {MethodNoAuth}
       /\ server.authMethods[MethodNoAuth] = NoAuthAuthenticator

\* NewServer was given an empty list of custom authenticators and no credential store
C4_Witness ==
  /\ opts = <<WithAuthMethods(<<>>)>>
  /\ DOMAIN server.authMethods = {MethodNoAuth}

\* C5: with a credential store and no custom authenticators, the map holds a
\* username/password authenticator bound to that store.
C5_CredentialEnablesUserPass ==
  (HasOption("WithCredential") /\ ~CustomSupplied) =>
    /\ MethodUserPassAuth \in DOMAIN server.authMethods
    /\ server.authMethods[MethodUserPassAuth] = UserPassAuthenticator(server.credentials)

\* C6: a handshake of another version than 5 ends ServeConn at once with the
\* not-supported-version error: nothing written, no authenticator run, no request
\* parsed, nothing dispatched.
C6_VersionMismatch ==
  \A c \in Conns :
    (conns[c].mr # NoMR /\ conns[c].mr.Ver # VersionSocks5) =>
      /\ Done(c)
      /\ conns[c].ret = ErrNotSupportVersion
      /\ conns[c].wire = <<>>
      /\ conns[c].invoked = <<>>
      /\ conns[c].parsed = 0
      /\ conns[c].handled = <<>>

C6_Witness ==
  \E c \in Conns : conns[c].mr.Ver = OtherVersion /\ Done(c) /\ conns[c].closed

\* C7: after a successful authentication, when the request cannot be parsed for
\* its address type, a reply address-type-not-supported with the version of the
\* handshake (5) is written before the error return and before the close.
C7_AddrTypeReplyBeforeReturn ==
  \A c \in Conns :
    conns[c].reqErr = ErrUnrecognizedAddrType =>
      /\ conns[c].authErr = NoError /\ conns[c].authContext # <<>>
      /\ Len(conns[c].wire) = 1
      /\ conns[c].wire[1].data[1] = conns[c].mr.Ver
      /\ conns[c].wire[1].data[1] = VersionSocks5
      /\ conns[c].wire[1].data[2] = RepAddrTypeNotSupported
      /\ Done(c) /\ conns[c].ret # NoError
      /\ Pos(conns[c].hist, "SendReply") # 0
      /\ Pos(conns[c].hist, "SendReply") < Pos(conns[c].hist, "Close")
      /\ Pos(conns[c].hist, "SendReply") < Pos(conns[c].hist, "return")

C7_Witness ==
  \E c \in Conns :
    /\ conns[c].reqErr = ErrUnrecognizedAddrType
    /\ Done(c)
    /\ conns[c].wire[1].ok
    /\ conns[c].ret = Wrapw("failed to read destination address", ErrUnrecognizedAddrType)

\* C8: on every other failure to parse the request, no reply is written, nothing
\* is dispatched, and ServeConn returns the wrapped error with the connection closed.
C8_OtherParseErrorsNoReply ==
  \A c \in Conns :
    conns[c].reqErr \notin {NoError, ErrUnrecognizedAddrType} =>
      /\ conns[c].wire = <<>>
      /\ Pos(conns[c].hist, "SendReply") = 0
      /\ conns[c].handled = <<>>
      /\ conns[c].request = <<>>
      /\ Done(c)
      /\ conns[c].ret = Wrapw("failed to read destination address", conns[c].reqErr)
      /\ conns[c].closed

C8_Witness ==
  \E c \in Conns : conns[c].reqErr = ErrUnrecognizedCommand /\ Done(c) /\ conns[c].closed

\* C9: when authentication fails, ServeConn returns the wrapped authentication
\* error with the connection closed; no request is built, the command executor is
\* not called, and ServeConn writes nothing after the authenticator returned.
C9_AuthFailureEndsConnection ==
  \A c \in Conns :
    conns[c].authErr # NoError =>
      /\ Done(c)
      /\ conns[c].closed
      /\ conns[c].ret = Wrapw("failed to authenticate", conns[c].authErr)
      /\ conns[c].parsed = 0
      /\ conns[c].request = <<>>
      /\ conns[c].handled = <<>>
      /\ Pos(conns[c].hist, "NewRequest") = 0
      /\ Pos(conns[c].hist, "SendReply") = 0
      /\ conns[c].invoked # <<>> => conns[c].wire = <<>>

C9_Witness ==
  \E c \in Conns :
    /\ conns[c].authErr = ErrUserAuthFailed
    /\ conns[c].invoked # <<>>
    /\ Done(c)

\* C10: every accepted connection is eventually served by ServeConn, with or
\* without a pool and also when the pool refuses the work.
C10_AcceptedEventuallyServed ==
  \A c \in Conns : (conns[c].pc = "submitted") ~> (conns[c].runs > 0)

\* the pool refused the work and submit started a goroutine for it
C10_Witness ==
  \E c \in Conns : server.gPool /\ conns[c].spawned = 1 /\ conns[c].pooled = 0

\* connection c returns from ServeConn with an error in this step
FailStep(c) == conns[c].pc # "done" /\ conns'[c].pc = "done" /\ conns'[c].ret # NoError

\* some connection has not been accepted yet
SomeIdle == \E d \in Conns : conns[d].pc = "idle"

\* C11: when ServeConn returns an error for a connection, the error is logged in
\* that connection's task and nothing else happens: Serve does not return, the
\* other connections are untouched, and Serve goes on accepting.
C11_FailureStaysInItsTask ==
  /\ [][\A c \in Conns :
          FailStep(c) =>
            /\ serve' = serve
            /\ conns'[c].logged = <<conns'[c].ret>>
            /\ \A d \in Conns \ {c} : conns'[d] = conns[d]]_vars
  /\ [](\A c \in Conns :
          (Done(c) /\ conns[c].ret # NoError) =>
            /\ conns[c].logged = <<conns[c].ret>>
            /\ serve.state = "returned" => serve.acceptErr # NoError
            /\ (serve.state = "accepting" /\ SomeIdle) => ENABLED Serve_Accept)

\* one connection failed, another one was served to the end, Serve still accepts
C11_Witness ==
  \E c, d \in Conns :
    /\ Done(c) /\ conns[c].ret # NoError
    /\ Done(d) /\ conns[d].ret = NoError
    /\ serve.state = "accepting"

\* C12: Serve returns exactly when Accept returns an error, and returns that
\* error; afterwards no connection is accepted or submitted; no step of a
\* connection makes Serve return.
C12_ServeReturnsOnAcceptError ==
  /\ [](/\ serve.state = "returned" <=> serve.acceptErr # NoError
        /\ serve.err = serve.acceptErr)
  /\ [][/\ serve' # serve => (conns' = conns /\ serve.state = "accepting")
        /\ serve.state = "returned" =>
             \A c \in Conns : conns[c].pc = "idle" => conns'[c] = conns[c]]_vars

\* Serve returned the error of Accept while a connection was still being served
C12_Witness ==
  /\ serve.state = "returned"
  /\ serve.err = ErrAccept
  /\ \E c \in Conns : Done(c) /\ conns[c].ret # NoError
  /\ \E c \in Conns : conns[c].pc = "idle"

\* the calls of the executor made for connection c
Handled(c) == {conns[c].handled[i] : i \in 1..Len(conns[c].handled)}

\* C13: whenever the executor is invoked for a connection, it gets that
\* connection's stream and a Request with the AuthContext the authenticator run
\* on that connection returned and that connection's local and remote
\* addresses; a step changes the state of one connection only.
C13_RequestOfOwnConnection ==
  /\ [](\A c \in Conns : \A h \in Handled(c) :
          /\ h.conn = c
          /\ h.request.LocalAddr = <<"local", c>>
          /\ h.request.RemoteAddr = <<"remote", c>>
          /\ h.request.AuthContext # <<>>
          /\ h.request.AuthContext = conns[c].authContext
          /\ Len(conns[c].invoked) = 1
          /\ \E r \in AuthenticateResults(conns[c].invoked[1]) :
               r.err = NoError /\ r.ctx = h.request.AuthContext)
  /\ [][\E c \in Conns : \A d \in Conns \ {c} : conns'[d] = conns[d]]_vars

\* two connections were dispatched with different authentication contexts
C13_Witness ==
  \E c, d \in Conns :
    /\ c # d
    /\ conns[c].handled # <<>> /\ conns[d].handled # <<>>
    /\ conns[c].handled[1].request.AuthContext # conns[d].handled[1].request.AuthContext

\* C14: after NewServer no operation changes the configuration of the server:
\* the authenticator map, the custom list, the credential store, the resolver,
\* the rules, the rewriter, the bind address, the logger, the dial function and
\* the two pools stay as constructed.
C14_ConfigurationFrozen == [][server' = server /\ opts' = opts]_vars

\* every connection was served with a pool that refused some work, Serve
\* returned, and the server is the one NewServer built
C14_Witness ==
  /\ \A c \in Conns : Done(c)
  /\ \E c \in Conns : Pos(conns[c].hist, "handleRequest") # 0
  /\ serve.state = "returned"
  /\ server.gPool
  /\ server = NewServer(opts)

\* the stage a connection is in: 1 Accepted, 2 MethodNegotiated, 3 Authenticated,
\* 4 RequestParsed, 6 Terminated (0: not accepted yet).  Dispatched, 5, is the
\* call of the executor, which is made and returns within one step.
StageOf(k) ==
  CASE k.pc = "idle" -> 0
    [] k.pc \in {"submitted", "ParseMethodRequest"} -> 1
    [] k.pc = "authenticate" -> 2
    [] k.pc = "NewRequest" -> 3
    [] k.pc = "handleRequest" -> 4
    [] OTHER -> 6

\* how often event e is in history h
Count(h, e) == Cardinality({i \in 1..Len(h) : h[i] = e})

\* C15: a connection goes through Accepted, MethodNegotiated, Authenticated,
\* RequestParsed, Dispatched, Terminated in that order: the executor is invoked
\* only after a version-5 handshake, a successful authentication and a parsed
\* request; no stage is skipped, repeated or reordered; every stage has a way
\* to Terminated.
C15_StagesInOrder ==
  /\ [](\A c \in Conns :
          /\ conns[c].handled # <<>> =>
               /\ Len(conns[c].handled) = 1
               /\ conns[c].parsed = 1 /\ conns[c].reqErr = NoError
               /\ conns[c].authContext # <<>> /\ conns[c].authErr = NoError
               /\ conns[c].mr.Ver = VersionSocks5
          /\ conns[c].pc = "submitted" => ENABLED Task_Start(c)
          /\ conns[c].pc = "ParseMethodRequest" =>
               ENABLED (ServeConn_ParseMethodRequest(c) /\ conns'[c].pc = "done")
          /\ conns[c].pc = "authenticate" => ENABLED ServeConn_authenticate(c)
          /\ conns[c].pc = "NewRequest" =>
               ENABLED (ServeConn_NewRequest(c) /\ conns'[c].pc = "done")
          /\ conns[c].pc = "handleRequest" =>
               ENABLED (ServeConn_handleRequest(c) /\ conns'[c].pc = "done"))
  /\ [][\A c \in Conns :
          /\ \/ StageOf(conns'[c]) = StageOf(conns[c])
             \/ StageOf(conns'[c]) = StageOf(conns[c]) + 1
             \/ StageOf(conns[c]) >= 1 /\ conns'[c].pc = "done"
          /\ conns'[c].handled # conns[c].handled =>
               (conns[c].pc = "handleRequest" /\ conns'[c].pc = "done")]_vars

\* a connection went through every stage
C15_Witness ==
  \E c \in Conns :
    conns[c].hist = <<"Accept", "ServeConn", "ParseMethodRequest", "Authenticate",
                      "NewRequest", "handleRequest", "Close", "return">>

\* C16: the work of an accepted connection is scheduled exactly once, by the
\* pool or by a goroutine and never by both or by neither, whether there is no
\* pool, the pool takes the work or the pool refuses it; it runs at most once.
C16_ScheduledExactlyOnce ==
  \A c \in Conns :
    /\ conns[c].pc = "idle" =>
         conns[c].pooled + conns[c].spawned + conns[c].runs = 0
    /\ conns[c].pc # "idle" =>
         conns[c].pooled + conns[c].spawned + conns[c].runs = 1
    /\ conns[c].pc \notin {"idle", "submitted"} => conns[c].runs = 1
    /\ ~server.gPool => conns[c].pooled = 0

\* a pool took the work of one connection and refused that of another, which
\* went to a goroutine
C16_Witness ==
  \E c, d \in Conns :
    /\ server.gPool
    /\ conns[c].pooled = 1 /\ conns[c].spawned = 0
    /\ conns[d].pooled = 0 /\ conns[d].spawned = 1

\* the handshake, the authentication, the parsing and the dispatch of c succeeded
AllSucceeded(c) ==
  /\ conns[c].mr.Ver = VersionSocks5
  /\ conns[c].authErr = NoError /\ conns[c].authContext # <<>>
  /\ conns[c].reqErr = NoError /\ conns[c].parsed = 1
  /\ Len(conns[c].handled) = 1 /\ conns[c].handleErr = NoError

\* C17: ServeConn returns nil exactly when the handshake, the authentication,
\* the parsing and the dispatch all succeeded, a non-nil error otherwise; an
\* error of the dispatch comes back inside an error with the text "failed to
\* handle request" that carries the dispatch error.
C17_NilIffAllSucceeded ==
  \A c \in Conns :
    Done(c) =>
      /\ conns[c].ret = NoError <=> AllSucceeded(c)
      /\ conns[c].handleErr # NoError =>
           /\ conns[c].ret.msg = "failed to handle request"
           /\ conns[c].ret.cause = conns[c].handleErr.cause

\* one connection returned nil, another returned the error of the dispatch
C17_Witness ==
  \E c, d \in Conns :
    /\ Done(c) /\ conns[c].ret = NoError
    /\ Done(d) /\ conns[d].handleErr = ErrHandle /\ conns[d].ret # NoError

\* C18: on a connection at most one authenticator is ever run, the one of the
\* first offered method that is registered; its result is final: when it fails
\* the connection ends and no other offered method is tried, registered or not.
C18_OneAuthenticatorNoFallback ==
  /\ [][\A c \in Conns :
          AuthenticateStep(c) =>
            /\ Len(conns'[c].invoked) <= 1
            /\ OffersRegistered(conns[c].mr.Methods) =>
                 conns'[c].invoked =
                   <<server.authMethods[FirstRegistered(conns[c].mr.Methods)]>>
            /\ conns'[c].invoked # <<>> =>
                 \E r \in AuthenticateResults(conns'[c].invoked[1]) :
                    r.err = conns'[c].authErr /\ r.ctx = conns'[c].authContext
            /\ conns'[c].authErr # NoError => conns'[c].pc = "done"]_vars
  /\ [](\A c \in Conns :
          /\ Len(conns[c].invoked) <= 1
          /\ Count(conns[c].hist, "Authenticate") = Len(conns[c].invoked)
          /\ (conns[c].authErr # NoError /\ conns[c].invoked # <<>>) =>
               (Done(c) /\ conns[c].authContext = <<>>))

\* the user/password authenticator failed on a server that has the no-auth
\* method registered as well, and the connection ended there
C18_Witness ==
  \E c \in Conns :
    /\ DOMAIN server.authMethods = {MethodNoAuth, MethodUserPassAuth}
    /\ conns[c].invoked = <<server.authMethods[MethodUserPassAuth]>>
    /\ conns[c].authErr = ErrUserAuthFailed
    /\ Done(c)

\* C19: ServeConn itself writes at most one message on a connection, the
\* refusal 5, 0xFF or the address-type-not-supported Reply, never both, and a
\* connection it wrote on never reaches the executor.
C19_AtMostOneReply ==
  \A c \in Conns :
    /\ Len(conns[c].wire) <= 1
    /\ Count(conns[c].hist, "Write") + Count(conns[c].hist, "SendReply") = Len(conns[c].wire)
    /\ conns[c].wire # <<>> =>
         /\ conns[c].wire[1].data \in {<<VersionSocks5, MethodNoAcceptable>>,
                                       ReplyBytes(VersionSocks5, RepAddrTypeNotSupported)}
         /\ Done(c)
         /\ conns[c].ret # NoError
         /\ conns[c].handled = <<>>
         /\ Pos(conns[c].hist, "handleRequest") = 0

\* one connection got the refusal, another the address-type Reply
C19_Witness ==
  \E c, d \in Conns :
    /\ WireData(c) = << <<VersionSocks5, MethodNoAcceptable>> >>
    /\ WireData(d) = << ReplyBytes(VersionSocks5, RepAddrTypeNotSupported) >>
    /\ Done(c) /\ Done(d)

\* the write of the refusal 5, 0xFF on connection c, if there was one
Refused(c) ==
  conns[c].wire # <<>> /\ conns[c].wire[1].data = <<VersionSocks5, MethodNoAcceptable>>

\* C20: when no offered method is registered, authenticate returns the
\* no-supported-auth error whether the write of the two-byte refusal went
\* through or failed; the error of the write appears nowhere, and the
\* connection is closed.
C20_RefusalWriteErrorIgnored ==
  \A c \in Conns :
    Refused(c) =>
      /\ conns[c].authErr = ErrNoSupportedAuth
      /\ conns[c].ret = Wrapw("failed to authenticate", ErrNoSupportedAuth)
      /\ conns[c].logged = <<conns[c].ret>>
      /\ conns[c].ret.cause # ErrWrite.cause
      /\ conns[c].closed
      /\ Done(c)

\* the refusal went through on one connection and failed on another
C20_Witness ==
  \E c, d \in Conns :
    /\ Refused(c) /\ conns[c].wire[1].ok
    /\ Refused(d) /\ ~conns[d].wire[1].ok
    /\ Done(c) /\ Done(d)

====
